---- MODULE Spec2Model ----
(***************************************************************************)
(* Content Vault: the staged upload pipeline (raw-uploads ->               *)
(* temp-processing -> processed-content) of app/api/endpoints/upload.py    *)
(* and app/services/s3_service.py, and the StyleLearner of models.py.      *)
(*                                                                         *)
(* An S3 key is the sequence of its '/'-separated segments, so            *)
(* key.split('/')[-1] is key[Len(key)].  Every await of upload_content is  *)
(* one step of a run; several runs interleave at those steps.              *)
(***************************************************************************)
EXTENDS Integers, Sequences, FiniteSets, TLC

\* ---------------------------------------------------------------- bounds
NumRuns == 2

Runs == 1..NumRuns

\* ---------------------------------------------------------------- inputs
\* user_id form values: any string, '/' included; "" is the empty form value
\* refused at upload.py:114.
UserIds == {"", "u1", "u1/final-videos"}
\* Declared content types of the submitted file: one allowed, one not.
ContentTypes == {"video/mp4", "image/png"}
\* datetime.now().strftime('%Y%m%d-%H%M%S'): uploads within the same second.
Timestamps == {"20250105-101500"}
\* str(uuid4())[:8]: two runs may draw the same value or different ones.
UniqueIds == {"0a1b2c3d", "4e5f6a7b"}
\* os.path.splitext(file.filename)[1]
Extensions == {".mp4"}

\* Python's None for each kind of value a run holds.
NoKey == <<>>
NoRequest == [user_id |-> "", content_type |-> "", extension |-> ""]
NoResult == [file_path |-> NoKey, filename |-> ""]
NoResponse == [code |-> 0, status |-> "none"]
NoUpdate == [raised |-> "nothing"]
NoSelection == [content_type |-> "none"]
\* A local current_prefs: the dict the store holds for the user (live), or a
\* dict object that has since been replaced in the store, with its content.
NoRef == [live |-> TRUE, dict |-> <<>>]
NoSession ==
    [pc |-> "idle", user_id |-> "", content_type |-> "", feedback |-> <<>>,
     current_prefs |-> NoRef, calls |-> 0, raised |-> "nothing"]
\* The sessions that call one StyleLearner.
Sessions == {"s1", "s2"}

\* ------------------------------------------------------------- variables
VARIABLES
    store,                \* the bucket: S3 key -> object body
    pc,                   \* per run: the await upload_content is suspended at
    request,              \* per run: the submitted form (file, user_id)
    s3_path,              \* per run: the Raw key upload_file has built
    upload_result,        \* per run: upload_file's result dict, or None
    temp_path,            \* per run: copy_to_temp_processing's result
    processed_temp_path,  \* per run: process_content's result
    final_path,           \* per run: save_processed_content's result
    response,             \* per run: the HTTP response, or None
    ops,                  \* per run: the store/transform calls issued so far
    user_preferences,     \* StyleLearner.user_preferences
    update_result,        \* the last update_preferences call and its outcome
    selected,             \* the last style process_content has selected
    session               \* per session: its update_preferences call in progress

pipeVars == <<store, pc, request, s3_path, upload_result, temp_path,
              processed_temp_path, final_path, response, ops>>
auxVars == <<selected, session>>
learnerVars == <<user_preferences, update_result, auxVars>>
vars == <<store, pc, request, s3_path, upload_result, temp_path,
          processed_temp_path, final_path, response, ops, user_preferences,
          update_result, selected, session>>

\* ------------------------------------------------------------ upload.py
allowed_types == {"video/mp4", "video/quicktime", "video/x-msvideo"}

\* ------------------------------------------------------- s3_service.py
\* new_filename = f"{timestamp}-{unique_id}{extension}"
NewFilename(timestamp, unique_id, extension) ==
    timestamp \o "-" \o unique_id \o extension

\* The '/'-separated segments a user_id contributes to a key: user_id.split('/').
Segments(user_id) ==
    CASE user_id = "u1/final-videos" -> <<"u1", "final-videos">>
      [] OTHER -> <<user_id>>

\* s3_path = f"raw-uploads/{user_id}/original-videos/{new_filename}"
RawPath(user_id, new_filename) ==
    <<"raw-uploads">> \o Segments(user_id) \o <<"original-videos", new_filename>>

\* filename = source_path.split('/')[-1]
LastSegment(path) == path[Len(path)]

\* Variant: the Temp key leaves out the owner.
TempPathNoOwner(source_path, user_id) ==
    <<"temp-processing", LastSegment(source_path)>>

\* temp_path = f"temp-processing/{user_id}/{filename}"
TempPath(source_path, user_id) ==
    <<"temp-processing">> \o Segments(user_id) \o <<LastSegment(source_path)>>

\* Variant: the Final key leaves out the owner.
FinalPathNoOwner(temp, user_id) ==
    <<"processed-content", "final-videos", LastSegment(temp)>>

\* final_path = f"processed-content/{user_id}/final-videos/{filename}"
FinalPath(temp, user_id) ==
    <<"processed-content">> \o Segments(user_id)
        \o <<"final-videos", LastSegment(temp)>>

\* output_path = f"processed_{video_path}" (models.py, apply_style)
ProcessedPath(video_path) ==
    <<"processed_" \o video_path[1]>> \o SubSeq(video_path, 2, Len(video_path))

\* The body the transformer produces from a source body.
Transformed(body) == <<"styled", body>>

\* s3_client.generate_presigned_url('get_object', Params, ExpiresIn)
DefaultExpiration == 3600
PresignedUrl(path, expiration) ==
    [method |-> "get_object", key |-> path, expires |-> expiration]

\* ------------------------------------------------------ the object store
Exists(s, key) == key \in DOMAIN s

\* put_object: writes (or overwrites) the object under key.
PutObject(s, key, body) ==
    [k \in DOMAIN s \cup {key} |-> IF k = key THEN body ELSE s[k]]

\* copy_object: the object under dst becomes a copy of the one under src.
CopyObject(s, src, dst) == PutObject(s, dst, s[src])

\* delete_object: removes key; a missing key is not an error.
DeleteObject(s, key) == [k \in DOMAIN s \ {key} |-> s[k]]

\* ---------------------------------------------------------- responses
Op(name, src, key, ok) == [op |-> name, src |-> src, key |-> key, ok |-> ok]

\* raise HTTPException(status_code=400, ...) before the try block
ValidationResponse(detail) == [code |-> 400, status |-> "error", detail |-> detail]

\* except Exception as e: raise HTTPException(500, f"Upload failed: {str(e)}")
FailureResponse(cause) ==
    [code |-> 500, status |-> "error", detail |-> <<"Upload failed", cause>>]

\* return {"status": "success", "file_path": ..., "temp_url": ...}
SuccessResponse(path, url) ==
    [code |-> 200, status |-> "success", file_path |-> path, temp_url |-> url]

\* The except handler of upload_content: log, answer 500, nothing else.
Fail(r, cause) ==
    /\ pc' = [pc EXCEPT ![r] = "done"]
    /\ response' = [response EXCEPT ![r] = FailureResponse(cause)]

Log(r, entry) == ops' = [ops EXCEPT ![r] = Append(@, entry)]

\* The bytes of the file submitted to run r (await file.read()).
FileBody(r) == <<"file", r>>

\* Provider errors (botocore ClientError codes) a store call can raise.
TransientError == "ServiceUnavailable"
CopyErrors(s, src) ==
    IF Exists(s, src) THEN {TransientError} ELSE {"NoSuchKey"}

\* ------------------------------------------------------------------ Init
Init ==
    /\ store = <<>>
    /\ pc = [r \in Runs |-> "idle"]
    /\ request = [r \in Runs |-> NoRequest]
    /\ s3_path = [r \in Runs |-> NoKey]
    /\ upload_result = [r \in Runs |-> NoResult]
    /\ temp_path = [r \in Runs |-> NoKey]
    /\ processed_temp_path = [r \in Runs |-> NoKey]
    /\ final_path = [r \in Runs |-> NoKey]
    /\ response = [r \in Runs |-> NoResponse]
    /\ ops = [r \in Runs |-> <<>>]
    /\ user_preferences = <<>>
    /\ update_result = NoUpdate
    /\ selected = NoSelection
    /\ session = [s \in Sessions |-> NoSession]

\* ------------------------------------------------- upload_content, entry
\* if not user_id: raise HTTPException(400)
UserRejected(user_id) == user_id = ""

\* Variant: the content-type check is missing.
TypeRejectedNever(content_type) == FALSE

\* if file.content_type not in allowed_types: raise HTTPException(400)
TypeRejected(content_type) == content_type \notin allowed_types

\* The request arrives; the checks before the try block run, and on success
\* upload_file builds the Raw key and suspends at put_object.
Submit(r) ==
    /\ pc[r] = "idle"
    /\ \E user_id \in UserIds, content_type \in ContentTypes,
          timestamp \in Timestamps, unique_id \in UniqueIds,
          extension \in Extensions :
        /\ request' = [request EXCEPT ![r] =
               [user_id |-> user_id, content_type |-> content_type,
                extension |-> extension]]
        /\ IF UserRejected(user_id)
           THEN /\ response' = [response EXCEPT ![r] =
                       ValidationResponse(<<"User ID is required">>)]
                /\ pc' = [pc EXCEPT ![r] = "done"]
                /\ UNCHANGED s3_path
           ELSE IF TypeRejected(content_type)
           THEN /\ response' = [response EXCEPT ![r] =
                       ValidationResponse(<<"File type not allowed", content_type>>)]
                /\ pc' = [pc EXCEPT ![r] = "done"]
                /\ UNCHANGED s3_path
           ELSE /\ s3_path' = [s3_path EXCEPT ![r] =
                       RawPath(user_id, NewFilename(timestamp, unique_id, extension))]
                /\ pc' = [pc EXCEPT ![r] = "put"]
                /\ UNCHANGED response
    /\ UNCHANGED <<store, upload_result, temp_path, processed_temp_path,
                   final_path, ops, learnerVars>>

\* ------------------------------------------------- S3Handler.upload_file
\* except ClientError: raise HTTPException(500, "Error uploading to S3: ...")
UploadFileFailed(r, e) == Fail(r, <<"Error uploading to S3", e>>)

UploadFile(r) ==
    /\ pc[r] = "put"
    /\ \/ /\ store' = PutObject(store, s3_path[r], FileBody(r))
          /\ upload_result' = [upload_result EXCEPT ![r] =
                 [file_path |-> s3_path[r], filename |-> LastSegment(s3_path[r])]]
          /\ pc' = [pc EXCEPT ![r] = "copy_temp"]
          /\ Log(r, Op("put", NoKey, s3_path[r], TRUE))
          /\ UNCHANGED response
       \/ /\ UploadFileFailed(r, TransientError)
          /\ Log(r, Op("put", NoKey, s3_path[r], FALSE))
          /\ UNCHANGED <<store, upload_result>>
    /\ UNCHANGED <<request, s3_path, temp_path, processed_temp_path,
                   final_path, learnerVars>>

\* ------------------------------------ S3Handler.copy_to_temp_processing
\* Variant: the failed copy is swallowed and attempted again.
CopyToTempFailedRetry(r, e) == UNCHANGED <<pc, response>>

\* except ClientError: raise HTTPException(500, str(e))
CopyToTempFailed(r, e) == Fail(r, e)

CopyToTempProcessing(r) ==
    LET source_path == upload_result[r].file_path
        dest == TempPath(source_path, request[r].user_id)
    IN
    /\ pc[r] = "copy_temp"
    /\ \/ /\ Exists(store, source_path)
          /\ store' = CopyObject(store, source_path, dest)
          /\ temp_path' = [temp_path EXCEPT ![r] = dest]
          /\ pc' = [pc EXCEPT ![r] = "transform"]
          /\ Log(r, Op("copy", source_path, dest, TRUE))
          /\ UNCHANGED response
       \/ /\ \E e \in CopyErrors(store, source_path) : CopyToTempFailed(r, e)
          /\ Log(r, Op("copy", source_path, dest, FALSE))
          /\ UNCHANGED <<store, temp_path>>
    /\ UNCHANGED <<request, s3_path, upload_result, processed_temp_path,
                   final_path, learnerVars>>

\* ---------------------------------- ContentProcessor.process_content
\* What a failed transform raises: a failure that may pass on a new attempt
\* and one that will not.
ProcessErrors == {"TransientFailure", "CorruptSource"}

\* Variant: a failed transform is attempted again.
ProcessContentFailedRetry(r, e) == UNCHANGED <<pc, response>>

\* Any exception of the transformer reaches the handler of upload_content.
ProcessContentFailed(r, e) == Fail(r, e)

\* The transformer's result for the Temp object: a new object under
\* ProcessedPath(temp_path), holding the transformed body.
TransformOutput(s, video_path) ==
    PutObject(s, ProcessedPath(video_path), Transformed(s[video_path]))

ProcessContent(r) ==
    LET video_path == temp_path[r] IN
    /\ pc[r] = "transform"
    /\ \/ \* the transformed object is written to the store
          /\ Exists(store, video_path)
          /\ store' = TransformOutput(store, video_path)
          /\ processed_temp_path' =
                 [processed_temp_path EXCEPT ![r] = ProcessedPath(video_path)]
          /\ pc' = [pc EXCEPT ![r] = "promote_copy"]
          /\ Log(r, Op("transform", video_path, ProcessedPath(video_path), TRUE))
          /\ UNCHANGED response
       \/ \* apply_style writes output_path on the local disk only
          /\ processed_temp_path' =
                 [processed_temp_path EXCEPT ![r] = ProcessedPath(video_path)]
          /\ pc' = [pc EXCEPT ![r] = "promote_copy"]
          /\ Log(r, Op("transform", video_path, NoKey, TRUE))
          /\ UNCHANGED <<store, response>>
       \/ \* FileNotFoundError, AttributeError, a decoder error, ...
          /\ \E e \in ProcessErrors : ProcessContentFailed(r, e)
          /\ Log(r, Op("transform", video_path, NoKey, FALSE))
          /\ UNCHANGED <<store, processed_temp_path>>
    /\ UNCHANGED <<request, s3_path, upload_result, temp_path, final_path,
                   learnerVars>>

\* -------------------------------------- S3Handler.save_processed_content
\* Variant: the error of the copy is swallowed and the delete still runs.
SaveCopyFailedIgnored(r, e) ==
    /\ pc' = [pc EXCEPT ![r] = "promote_delete"]
    /\ UNCHANGED response

\* except ClientError: raise HTTPException(500, str(e))
SaveCopyFailed(r, e) == Fail(r, e)
SaveDeleteFailed(r, e) == Fail(r, e)

\* Variant: the delete targets the Raw key.
SaveDeleteKeyRaw(r) == upload_result[r].file_path

\* Key=temp_path of the delete_object call
SaveDeleteKey(r) == processed_temp_path[r]

\* Variant: the copy to Final takes the untransformed Temp object.
SaveCopySourceUntransformed(r) == temp_path[r]

\* CopySource Key=temp_path of the copy_object call
SaveCopySource(r) == processed_temp_path[r]

\* First await: copy_object(temp_path -> final_path).
SaveProcessedCopy(r) ==
    LET src == SaveCopySource(r)
        dest == FinalPath(processed_temp_path[r], request[r].user_id)
    IN
    /\ pc[r] = "promote_copy"
    /\ \/ /\ Exists(store, src)
          /\ store' = CopyObject(store, src, dest)
          /\ pc' = [pc EXCEPT ![r] = "promote_delete"]
          /\ Log(r, Op("copy", src, dest, TRUE))
          /\ UNCHANGED response
       \/ /\ \E e \in CopyErrors(store, src) : SaveCopyFailed(r, e)
          /\ Log(r, Op("copy", src, dest, FALSE))
          /\ UNCHANGED store
    /\ UNCHANGED <<request, s3_path, upload_result, temp_path,
                   processed_temp_path, final_path, learnerVars>>

\* Second await: delete_object(temp_path), then return final_path.
SaveProcessedDelete(r) ==
    LET key == SaveDeleteKey(r) IN
    /\ pc[r] = "promote_delete"
    /\ \/ /\ store' = DeleteObject(store, key)
          /\ final_path' = [final_path EXCEPT ![r] =
                 FinalPath(processed_temp_path[r], request[r].user_id)]
          /\ pc' = [pc EXCEPT ![r] = "link"]
          /\ Log(r, Op("delete", NoKey, key, TRUE))
          /\ UNCHANGED response
       \/ /\ SaveDeleteFailed(r, TransientError)
          /\ Log(r, Op("delete", NoKey, key, FALSE))
          /\ UNCHANGED <<store, final_path>>
    /\ UNCHANGED <<request, s3_path, upload_result, temp_path,
                   processed_temp_path, learnerVars>>

\* -------------------------------------- S3Handler.generate_presigned_url
\* except ClientError: raise HTTPException(500, str(e))
PresignFailed(r, e) == Fail(r, e)

\* Variant: the link is made for the Temp key.
LinkKeyTemp(r) == processed_temp_path[r]

\* generate_presigned_url(final_path)
LinkKey(r) == final_path[r]

GeneratePresignedUrl(r) ==
    /\ pc[r] = "link"
    /\ \/ /\ response' = [response EXCEPT ![r] =
                 SuccessResponse(final_path[r],
                                 PresignedUrl(LinkKey(r), DefaultExpiration))]
          /\ pc' = [pc EXCEPT ![r] = "done"]
          /\ Log(r, Op("link", NoKey, LinkKey(r), TRUE))
       \/ /\ PresignFailed(r, TransientError)
          /\ Log(r, Op("link", NoKey, LinkKey(r), FALSE))
    /\ UNCHANGED <<store, request, s3_path, upload_result, temp_path,
                   processed_temp_path, final_path, learnerVars>>

\* ------------------------------------------------------------------ Spec
\* A run that is cancelled, or whose process dies, while suspended at an await
\* takes no further step (asyncio.CancelledError is not an Exception, so the
\* handler of upload_content does not run): every reachable state in which a
\* run is suspended is a state such a crash leaves behind.
Next ==
    \E r \in Runs :
        \/ Submit(r)
        \/ UploadFile(r)
        \/ CopyToTempProcessing(r)
        \/ ProcessContent(r)
        \/ SaveProcessedCopy(r)
        \/ SaveProcessedDelete(r)
        \/ GeneratePresignedUrl(r)

Spec == Init /\ [][Next]_vars

\* --------------------------------------------------------- StyleLearner
\* Inputs of update_preferences.
LearnerUsers == {"u1", "u2"}
LearnerTypes == {"studio", "live"}
\* Feedback dicts: parameter -> value, values in hundredths.  The signature
\* takes any dict, so a value beyond 1.00 is among them.
Feedbacks ==
    { <<>>,
      [p \in {"color_grade_warmth"} |-> 20],
      [p \in {"color_grade_warmth"} |-> 150],
      [p \in {"color_grade_warmth"} |-> 80],
      [p \in {"transition_speed"} |-> 40],
      [p \in {"color_grade_warmth", "transition_speed"} |-> 60] }

EmptyDict == <<>>

\* 0.7 * stored + 0.3 * value, on hundredths (exact when 7s + 3v is a
\* multiple of 10).
Smooth(stored, value) == (7 * stored + 3 * value) \div 10

\* The body of the weighted-update loop: one pass over feedback.items().
WeightedUpdate(profile, feedback) ==
    [k \in DOMAIN profile \cup DOMAIN feedback |->
        IF k \in DOMAIN feedback
        THEN IF k \in DOMAIN profile
             THEN Smooth(profile[k], feedback[k])
             ELSE feedback[k]
        ELSE profile[k]]

\* Variant: the user's dict is assigned without the membership test.
WithUserReset(prefs, user_id) ==
    (user_id :> EmptyDict) @@ prefs

\* if user_id not in self.user_preferences: self.user_preferences[user_id] = {}
WithUser(prefs, user_id) ==
    IF user_id \in DOMAIN prefs THEN prefs ELSE prefs @@ (user_id :> EmptyDict)

\* The else branch evaluates feedback_items(), a name that is not defined:
\* NameError is raised before the loop body runs.
LoopOutcome(profile, feedback) ==
    [raised |-> "NameError", profile |-> profile]

UpdatePreferences(user_id, content_type, feedback) ==
    LET prefs == WithUser(user_preferences, user_id)
        current_prefs == prefs[user_id]
        known == content_type \in DOMAIN current_prefs
        before == IF known THEN current_prefs[content_type] ELSE EmptyDict
        out == IF known
               THEN LoopOutcome(before, feedback)
               ELSE [raised |-> "nothing", profile |-> feedback]
    IN
    /\ user_preferences' =
           [prefs EXCEPT ![user_id] =
               [ct \in DOMAIN current_prefs \cup {content_type} |->
                   IF ct = content_type THEN out.profile ELSE current_prefs[ct]]]
    /\ update_result' =
           [user_id |-> user_id, content_type |-> content_type,
            feedback |-> feedback, known |-> known, before |-> before,
            raised |-> out.raised]
    /\ UNCHANGED <<pipeVars, auxVars>>

LearnerNext ==
    \E user_id \in LearnerUsers, content_type \in LearnerTypes,
       feedback \in Feedbacks :
        UpdatePreferences(user_id, content_type, feedback)

LearnerSpec == Init /\ [][LearnerNext]_vars

\* ------------------------- models.py: update_preferences, statement by
\* statement, called from several sessions on one StyleLearner
\* Calls each session makes.
MaxCalls == 1

SessionFeedbacks ==
    { [p \in {"color_grade_warmth"} |-> 20],
      [p \in {"color_grade_warmth"} |-> 80],
      [p \in {"transition_speed"} |-> 40] }

\* The dict session s reads and writes through current_prefs.
Deref(s) ==
    IF session[s].current_prefs.live
    THEN user_preferences[session[s].user_id]
    ELSE session[s].current_prefs.dict

\* Session s has bound current_prefs to the store's dict of user_id.
HoldsLive(s, user_id) ==
    /\ session[s].pc \in {"test_type", "store", "loop"}
    /\ session[s].user_id = user_id
    /\ session[s].current_prefs.live

\* def update_preferences(self, user_id, content_type, feedback)
CallUpdate(s, user_id, content_type, feedback) ==
    /\ session[s].pc = "idle"
    /\ session[s].calls < MaxCalls
    /\ session' = [session EXCEPT ![s] =
           [pc |-> "test_user", user_id |-> user_id,
            content_type |-> content_type, feedback |-> feedback,
            current_prefs |-> NoRef, calls |-> session[s].calls + 1,
            raised |-> "nothing"]]
    /\ UNCHANGED <<pipeVars, user_preferences, update_result, selected>>

\* if user_id not in self.user_preferences:
TestUser(s) ==
    /\ session[s].pc = "test_user"
    /\ session' = [session EXCEPT ![s].pc =
           IF session[s].user_id \in DOMAIN user_preferences
           THEN "read" ELSE "assign_user"]
    /\ UNCHANGED <<pipeVars, user_preferences, update_result, selected>>

\* self.user_preferences[user_id] = {}: a new dict object takes the place of
\* the one the store held, which lives on in the locals bound to it.
AssignUser(s) ==
    LET user_id == session[s].user_id IN
    /\ session[s].pc = "assign_user"
    /\ user_preferences' = (user_id :> EmptyDict) @@ user_preferences
    /\ session' = [o \in Sessions |->
           IF o = s THEN [session[o] EXCEPT !.pc = "read"]
           ELSE IF HoldsLive(o, user_id)
           THEN [session[o] EXCEPT !.current_prefs =
                    [live |-> FALSE, dict |-> user_preferences[user_id]]]
           ELSE session[o]]
    /\ UNCHANGED <<pipeVars, update_result, selected>>

\* current_prefs = self.user_preferences[user_id]
ReadUser(s) ==
    /\ session[s].pc = "read"
    /\ session' = [session EXCEPT ![s].pc = "test_type",
                                  ![s].current_prefs = NoRef]
    /\ UNCHANGED <<pipeVars, user_preferences, update_result, selected>>

\* if content_type not in current_prefs:
TestType(s) ==
    /\ session[s].pc = "test_type"
    /\ session' = [session EXCEPT ![s].pc =
           IF session[s].content_type \in DOMAIN Deref(s)
           THEN "loop" ELSE "store"]
    /\ UNCHANGED <<pipeVars, user_preferences, update_result, selected>>

\* current_prefs[content_type] = feedback, and the method returns.
StoreFeedback(s) ==
    LET written == (session[s].content_type :> session[s].feedback) @@ Deref(s)
    IN
    /\ session[s].pc = "store"
    /\ IF session[s].current_prefs.live
       THEN /\ user_preferences' =
                   [user_preferences EXCEPT ![session[s].user_id] = written]
            /\ session' = [session EXCEPT ![s].pc = "idle"]
       ELSE /\ UNCHANGED user_preferences
            /\ session' = [session EXCEPT ![s].pc = "idle",
                                          ![s].current_prefs.dict = written]
    /\ UNCHANGED <<pipeVars, update_result, selected>>

\* for key, value in feedback_items(): NameError leaves the method.
LoopRaises(s) ==
    /\ session[s].pc = "loop"
    /\ session' = [session EXCEPT ![s].pc = "idle",
                                  ![s].raised = "NameError"]
    /\ UNCHANGED <<pipeVars, user_preferences, update_result, selected>>

SessionNext ==
    \E s \in Sessions :
        \/ \E user_id \in LearnerUsers, content_type \in LearnerTypes,
              feedback \in SessionFeedbacks :
               CallUpdate(s, user_id, content_type, feedback)
        \/ TestUser(s)
        \/ AssignUser(s)
        \/ ReadUser(s)
        \/ TestType(s)
        \/ StoreFeedback(s)
        \/ LoopRaises(s)

SessionSpec == Init /\ [][SessionNext]_vars

\* --------------------------------------- models.py: style selection
content_types == {"studio", "live", "daily", "creative"}

style_presets ==
    [ct \in content_types |->
        CASE ct = "studio" ->
                 [color_grade |-> "warm", transition_style |-> "clean"]
          [] ct = "live" ->
                 [color_grade |-> "vibrant", transition_style |-> "energetic"]
          [] ct = "daily" ->
                 [color_grade |-> "natural", transition_style |-> "smooth"]
          [] OTHER ->
                 [color_grade |-> "moody", transition_style |-> "dynamic"]]

\* return self.user_preferences.get(user_id, {})
get_preferences(prefs, user_id) ==
    IF user_id \in DOMAIN prefs THEN prefs[user_id] ELSE EmptyDict

\* dict.update: the keys of other replace or extend those of style.
DictUpdate(style, other) ==
    [k \in DOMAIN style \cup DOMAIN other |->
        IF k \in DOMAIN other THEN other[k] ELSE style[k]]

\* style = presets[content_type].copy(); if user_preferences:
\* style.update(user_preferences.get(content_type, {})).  None and {} are
\* both falsy and are both the empty dict here.
SelectStyle(content_type, preferences) ==
    LET style == style_presets[content_type] IN
    IF preferences = EmptyDict
    THEN style
    ELSE DictUpdate(style, IF content_type \in DOMAIN preferences
                           THEN preferences[content_type]
                           ELSE EmptyDict)

\* Feedback that names the preset keys, as the learner would be given it.
StyleFeedbacks ==
    { [p \in {"color_grade"} |-> "cool"],
      [p \in {"color_grade", "grain"} |-> "soft"] }

\* The user_preferences argument the callers of process_content pass: none
\* (upload_content) or the request's own preferences value.
CallerPreferences ==
    { EmptyDict,
      [ct \in {"studio"} |-> [p \in {"transition_style"} |-> "cut"]] }

ProfileUsers == LearnerUsers \cup {"u3"}

\* process_content up to the style it hands to apply_style.
ProcessContentStyle(user_id, content_type, preferences) ==
    /\ selected' = [user_id |-> user_id, content_type |-> content_type,
                    style |-> SelectStyle(content_type, preferences)]
    /\ UNCHANGED <<pipeVars, user_preferences, update_result, session>>

ProfileNext ==
    \/ \E user_id \in LearnerUsers, content_type \in LearnerTypes,
          feedback \in StyleFeedbacks :
           UpdatePreferences(user_id, content_type, feedback)
    \/ \E user_id \in ProfileUsers, content_type \in content_types,
          preferences \in CallerPreferences :
           ProcessContentStyle(user_id, content_type, preferences)

ProfileSpec == Init /\ [][ProfileNext]_vars

\* ================================================================ claims
\* Helpers of the statements below.

\* No other run was given the same Raw key (same owner, same new_filename).
Alone(r) == \A q \in Runs \ {r} : s3_path[q] # s3_path[r]

\* The stage keys of run r, written out from its owner and Raw filename.
OwnerOf(r) == request[r].user_id
FileOf(r) == LastSegment(s3_path[r])
RawKeyOf(r) ==
    <<"raw-uploads">> \o Segments(OwnerOf(r)) \o <<"original-videos", FileOf(r)>>
TempKeyOf(r) ==
    <<"temp-processing">> \o Segments(OwnerOf(r)) \o <<FileOf(r)>>
ProcessedKeyOf(r) ==
    <<"processed_temp-processing">> \o Segments(OwnerOf(r)) \o <<FileOf(r)>>
FinalKeyOf(r) ==
    <<"processed-content">> \o Segments(OwnerOf(r)) \o <<"final-videos", FileOf(r)>>

Issued(r, name) == {i \in 1..Len(ops[r]) : ops[r][i].op = name}
LastOp(r) == ops[r][Len(ops[r])]
\* Run r wrote its transformed object to the store.
StoredOutput(r) ==
    \E i \in Issued(r, "transform") : ops[r][i].ok /\ ops[r][i].key # NoKey
\* Run r stands between the copy to Final and the delete of Temp: suspended
\* there (where a crash would stop it for good), or stopped by a failed delete.
BetweenCopyAndDelete(r) ==
    /\ Len(ops[r]) >= 4
    /\ \/ /\ pc[r] = "promote_delete"
          /\ LastOp(r) = Op("copy", ProcessedKeyOf(r), FinalKeyOf(r), TRUE)
       \/ /\ pc[r] = "done"
          /\ LastOp(r) = Op("delete", NoKey, ProcessedKeyOf(r), FALSE)

\* C1: in save_processed_content the copy Temp -> Final is issued before the
\* delete of Temp, and the delete only after that copy succeeded; so in every
\* reachable state (a failure or a crash at any await included) the promoted object
\* exists under its Temp key or under its Final key, and a stop between copy
\* and delete leaves both, the Final body equal to the Temp body.
C1_CopyBeforeDelete ==
    \A r \in Runs :
        /\ \A i \in Issued(r, "delete") :
               /\ i > 1
               /\ ops[r][i - 1] = Op("copy", ops[r][i].key, FinalKeyOf(r), TRUE)
        /\ StoredOutput(r) =>
               \/ Exists(store, ProcessedKeyOf(r))
               \/ Exists(store, FinalKeyOf(r))
        /\ (StoredOutput(r) /\ Alone(r) /\ BetweenCopyAndDelete(r)) =>
               /\ Exists(store, ProcessedKeyOf(r))
               /\ Exists(store, FinalKeyOf(r))
               /\ store[FinalKeyOf(r)] = store[ProcessedKeyOf(r)]

C1_Witness ==
    \E r \in Runs :
        /\ StoredOutput(r) /\ Alone(r) /\ BetweenCopyAndDelete(r)
        /\ pc[r] = "done" /\ response[r].code = 500
        /\ store[FinalKeyOf(r)] = Transformed(FileBody(r))
        /\ store[ProcessedKeyOf(r)] = Transformed(FileBody(r))

\* C2: once a run has written its Raw object, that run never deletes or
\* overwrites it, whatever the outcome of its stages: its only delete targets
\* the Temp-stage key handed to save_processed_content, and no later call of
\* the run writes the Raw key.
C2_RawRetained ==
    \A r \in Runs :
        /\ \A i \in Issued(r, "delete") :
               /\ ops[r][i].key = ProcessedKeyOf(r)
               /\ ops[r][i].key # RawKeyOf(r)
        /\ \A i \in 2..Len(ops[r]) : ops[r][i].key # RawKeyOf(r)
        /\ (upload_result[r] # NoResult /\ Alone(r)) =>
               /\ Exists(store, RawKeyOf(r))
               /\ store[RawKeyOf(r)] = FileBody(r)

C2_Witness ==
    \E r \in Runs :
        /\ pc[r] = "done" /\ response[r].status = "success"
        /\ Alone(r)
        /\ \E i \in Issued(r, "delete") : ops[r][i].ok
        /\ store[RawKeyOf(r)] = FileBody(r)

\* C3: a run whose transform fails terminally after copy_to_temp_processing
\* succeeded ends Failed with its Temp object discarded: nothing is left under
\* the run's temp-processing key.
C3_TempDiscardedOnFailure ==
    \A r \in Runs :
        (/\ pc[r] = "done"
         /\ Len(ops[r]) = 3
         /\ LastOp(r).op = "transform" /\ ~LastOp(r).ok
         /\ response[r] = FailureResponse("CorruptSource")
         /\ Alone(r))
        => ~Exists(store, TempKeyOf(r))

C5_NoTempAfterFinalized ==
    \A r \in Runs :
        (pc[r] = "done" /\ response[r].status = "success" /\ Alone(r))
        => /\ ~Exists(store, TempKeyOf(r))
           /\ ~Exists(store, ProcessedKeyOf(r))

\* C6: a submission whose content type is not allowed is answered with a 400
\* before any store call: the step that takes it leaves the store unchanged
\* and ends the run with no call issued and no Raw key built.
C6_RejectedBeforeStore ==
    [][\A r \in Runs :
          (pc[r] = "idle" /\ pc'[r] # "idle"
           /\ request'[r].content_type \notin allowed_types)
          => /\ store' = store
             /\ pc'[r] = "done"
             /\ response'[r].code = 400
             /\ ops'[r] = <<>>
             /\ s3_path'[r] = NoKey]_vars

C6_Witness ==
    \E r \in Runs :
        /\ pc[r] = "done"
        /\ request[r].user_id # ""
        /\ request[r].content_type \notin allowed_types
        /\ response[r].code = 400
        /\ ops[r] = <<>>

\* The calls of a complete run, in order; the transformer's entry names the
\* object it wrote, or no key when it wrote none to the store.
StageCall(keys, i, entry) ==
    CASE i = 1 -> entry.op = "put" /\ entry.key = keys.raw
      [] i = 2 -> entry.op = "copy" /\ entry.src = keys.raw
                  /\ entry.key = keys.temp
      [] i = 3 -> entry.op = "transform" /\ entry.src = keys.temp
                  /\ entry.key \in {keys.processed, NoKey}
      [] i = 4 -> entry.op = "copy" /\ entry.src = keys.processed
                  /\ entry.key = keys.final
      [] i = 5 -> entry.op = "delete" /\ entry.key = keys.processed
      [] i = 6 -> entry.op = "link" /\ entry.key = keys.final
      [] OTHER -> FALSE
\* The four keys of run r, written out once.
KeysOf(r) ==
    [raw |-> RawKeyOf(r), temp |-> TempKeyOf(r),
     processed |-> ProcessedKeyOf(r), final |-> FinalKeyOf(r)]

\* C7: the stage calls of a run are strictly sequential and none is skipped:
\* put Raw, copy Raw -> Temp, transform, copy Temp -> Final, delete Temp,
\* link, each issued only after its predecessor succeeded; so the Final
\* object a run creates is the transform of that run's own Raw body.
C7_StagesInOrder ==
    \A r \in Runs :
        ops[r] # <<>> =>
            \A keys \in {KeysOf(r)} :
                /\ \A i \in 1..Len(ops[r]) :
                       /\ StageCall(keys, i, ops[r][i])
                       /\ i < Len(ops[r]) => ops[r][i].ok
                /\ (Alone(r) /\ StoredOutput(r) /\ Len(ops[r]) >= 4
                        /\ ops[r][4].ok) =>
                       /\ Exists(store, keys.final)
                       /\ store[keys.final] = Transformed(FileBody(r))

C7_Witness ==
    \E r \in Runs :
        /\ Len(ops[r]) = 6 /\ LastOp(r).ok
        /\ Alone(r)
        /\ store[FinalKeyOf(r)] = Transformed(FileBody(r))

\* C8: the access link is generated only after save_processed_content has
\* returned (copy and delete both succeeded), and a success response carries
\* as file_path the Final key processed-content/{owner}/final-videos/{file}
\* of an object that is in the store, and as temp_url the link for that key.
C8_LinkAfterFinalized ==
    \A r \in Runs :
        /\ \A i \in Issued(r, "link") :
               /\ i = 6
               /\ ops[r][4] = Op("copy", ProcessedKeyOf(r), FinalKeyOf(r), TRUE)
               /\ ops[r][5] = Op("delete", NoKey, ProcessedKeyOf(r), TRUE)
               /\ ops[r][i].key = FinalKeyOf(r)
        /\ response[r].status = "success" =>
               /\ Issued(r, "link") # {}
               /\ response[r].file_path = FinalKeyOf(r)
               /\ Exists(store, response[r].file_path)
               /\ response[r].temp_url =
                      [method |-> "get_object", key |-> FinalKeyOf(r),
                       expires |-> 3600]

C8_Witness ==
    \E r \in Runs :
        /\ response[r].status = "success"
        /\ Exists(store, response[r].file_path)
        /\ response[r].temp_url.key = response[r].file_path

\* Run r's copy Raw -> Temp failed.
CopyToTempHasFailed(r) ==
    /\ Len(ops[r]) >= 2
    /\ ops[r][2].op = "copy" /\ ~ops[r][2].ok

\* C9: if the copy of copy_to_temp_processing fails, the Raw object is left as
\* it was, no Temp object exists, the caller gets a storage error (500), and
\* the run ends Failed with the copy not retried and no transform, promote or
\* link call issued.
C9_CopyToTempFailure ==
    \A r \in Runs :
        CopyToTempHasFailed(r) =>
            /\ pc[r] = "done"
            /\ response[r].code = 500
            /\ response[r].detail = <<"Upload failed", TransientError>>
            /\ Len(ops[r]) = 2
            /\ temp_path[r] = NoKey
            /\ Alone(r) =>
                   /\ Exists(store, RawKeyOf(r))
                   /\ store[RawKeyOf(r)] = FileBody(r)
                   /\ ~Exists(store, TempKeyOf(r))

C9_Witness ==
    \E r \in Runs :
        /\ CopyToTempHasFailed(r)
        /\ Alone(r)
        /\ pc[r] = "done"
        /\ store[RawKeyOf(r)] = FileBody(r)

\* C10: update_preferences completes without error and, for every parameter
\* of the feedback, stores the feedback value verbatim when the parameter was
\* absent from the stored profile and 0.7 * stored + 0.3 * value when it was
\* present, on a second or later update of a (user, content type) pair too.
C10_SmoothedUpdate ==
    update_result # NoUpdate =>
        LET u == update_result.user_id
            ct == update_result.content_type
            fb == update_result.feedback
            before == update_result.before
            stored == user_preferences[u][ct]
        IN
        /\ update_result.raised = "nothing"
        /\ \A k \in DOMAIN fb :
               /\ k \in DOMAIN stored
               /\ stored[k] = IF k \in DOMAIN before
                              THEN Smooth(before[k], fb[k])
                              ELSE fb[k]

\* C15: the Raw key upload_file generates is unique across calls within the
\* same second for the same owner and extension: no two runs write the same
\* raw-uploads key, so no Raw object is overwritten by a later upload.
C15_RawKeyUnique ==
    \A r \in Runs : \A q \in Runs \ {r} :
        (upload_result[r] # NoResult /\ upload_result[q] # NoResult)
        => upload_result[r].file_path # upload_result[q].file_path

\* The error strings of the storage provider.
ProviderErrors == {TransientError, "NoSuchKey"}
\* Run r ended Failed on a store call / on the transform.
FailedOnStore(r) ==
    /\ pc[r] = "done" /\ response[r].code = 500
    /\ LastOp(r).op \in {"put", "copy", "delete", "link"}
FailedOnTransform(r) ==
    /\ pc[r] = "done" /\ response[r].code = 500
    /\ LastOp(r).op = "transform"
\* What a client can branch on: the status code and the status field.
ErrorKind(r) == <<response[r].code, response[r].status>>

\* C16: every failed run reports a stable error kind that tells the kinds of
\* the taxonomy apart (a storage failure from a processing failure), and the
\* error returned to the caller never embeds the provider's error string.
C16_StableErrorKind ==
    \A r \in Runs :
        /\ \A q \in Runs :
               (FailedOnStore(r) /\ FailedOnTransform(q))
               => ErrorKind(r) # ErrorKind(q)
        /\ FailedOnStore(r) =>
               IF LastOp(r).op = "put"
               THEN response[r].detail[2][2] \notin ProviderErrors
               ELSE response[r].detail[2] \notin ProviderErrors

\* C18 (as stated): whenever a run ends with a failure response, no Final
\* object of that run is in the store.
C18_NoFinalOnFailure ==
    \A r \in Runs :
        (pc[r] = "done" /\ response[r].code = 500 /\ Alone(r))
        => ~Exists(store, FinalKeyOf(r))

\* C18 (amended): a run that ends with a failure response has a Final object
\* in the store exactly when its copy to Final had succeeded, that is when the
\* failure was the delete of Temp or the link generation that followed.
C18_FinalOnFailureIffCopied ==
    \A r \in Runs :
        (pc[r] = "done" /\ response[r].code = 500 /\ Alone(r))
        => (Exists(store, FinalKeyOf(r))
              <=> (Len(ops[r]) >= 5 /\ ops[r][4].ok
                   /\ LastOp(r).op \in {"delete", "link"}))

C18_Witness ==
    \E r \in Runs :
        /\ pc[r] = "done" /\ response[r].code = 500 /\ Alone(r)
        /\ LastOp(r) = Op("delete", NoKey, ProcessedKeyOf(r), FALSE)
        /\ Exists(store, FinalKeyOf(r))

\* The Temp-stage and Final-stage keys the code derives for run r: the Temp
\* key, the transform's output key and the Final key.
StageKeys(r) ==
    LET temp == TempPath(s3_path[r], OwnerOf(r))
        processed == ProcessedPath(temp)
    IN <<temp, processed, FinalPath(processed, OwnerOf(r))>>
Started(r) == s3_path[r] # NoKey

\* C19: two runs whose (user_id, Raw filename) pairs differ have distinct Temp
\* and Final keys, so a call issued by one run never addresses, overwrites,
\* removes or creates an object under a Raw, Temp or Final key of the other.
C19_Step ==
    \A r \in Runs :
        ops'[r] # ops[r] =>
            \A q \in Runs \ {r} :
                (/\ Started(q)
                 /\ \/ OwnerOf(r) # OwnerOf(q)
                    \/ FileOf(r) # FileOf(q))
                => \A mine \in {StageKeys(r)}, theirs \in {StageKeys(q)} :
                       /\ \A i \in 1..3 : \A j \in 1..3 : mine[i] # theirs[j]
                       /\ \A k \in {s3_path[q], theirs[1], theirs[2], theirs[3]} :
                              /\ ops'[r][Len(ops'[r])].key # k
                              /\ Exists(store', k) <=> Exists(store, k)
                              /\ Exists(store, k) => store'[k] = store[k]

C19_StageKeysDistinct == [][C19_Step]_vars

C19_Witness ==
    \E r \in Runs : \E q \in Runs \ {r} :
        /\ Started(r) /\ Started(q)
        /\ OwnerOf(r) # OwnerOf(q) /\ FileOf(r) = FileOf(q)
        /\ response[r].status = "success" /\ response[q].status = "success"
        /\ store[FinalKeyOf(r)] = Transformed(FileBody(r))
        /\ store[FinalKeyOf(q)] = Transformed(FileBody(q))

\* C12: every value in the preference store lies within the valid range of
\* its parameter (0.00 to 1.00, in hundredths): out-of-range feedback is
\* clamped or rejected, never stored verbatim, cold start included.
C12_ValuesInRange ==
    \A u \in DOMAIN user_preferences :
        \A ct \in DOMAIN user_preferences[u] :
            \A k \in DOMAIN user_preferences[u][ct] :
                user_preferences[u][ct][k] \in 0..100

\* The (user, content type) pairs that have a stored profile.
Pairs(prefs) ==
    {pair \in LearnerUsers \X LearnerTypes :
        /\ pair[1] \in DOMAIN prefs
        /\ pair[2] \in DOMAIN prefs[pair[1]]}

\* C13: a call update_preferences(user_id, content_type, feedback) leaves
\* unchanged every stored parameter of that pair's profile that is not a key
\* of feedback, leaves unchanged the profile of every other content type and
\* of every other user, and adds no profile other than that pair's.
C13_FrameStep ==
    update_result' # NoUpdate =>
        LET u == update_result'.user_id
            ct == update_result'.content_type
            fb == update_result'.feedback
        IN
        /\ Pairs(user_preferences') \subseteq Pairs(user_preferences) \cup {<<u, ct>>}
        /\ DOMAIN user_preferences' \subseteq DOMAIN user_preferences \cup {u}
        /\ \A pair \in Pairs(user_preferences) :
               /\ pair \in Pairs(user_preferences')
               /\ LET old == user_preferences[pair[1]][pair[2]]
                      new == user_preferences'[pair[1]][pair[2]]
                  IN IF pair = <<u, ct>>
                     THEN \A k \in DOMAIN old \ DOMAIN fb :
                              k \in DOMAIN new /\ new[k] = old[k]
                     ELSE new = old

C13_Frame == [][C13_FrameStep]_vars

\* A call on a pair that holds a parameter the feedback does not name, while
\* the same user has another content type's profile and another user has one.
C13_Witness ==
    /\ update_result # NoUpdate
    /\ LET u == update_result.user_id
           ct == update_result.content_type
       IN
       /\ update_result.known
       /\ DOMAIN update_result.before \ DOMAIN update_result.feedback # {}
       /\ DOMAIN update_result.feedback # {}
       /\ \E c2 \in LearnerTypes \ {ct} : <<u, c2>> \in Pairs(user_preferences)
       /\ \E u2 \in LearnerUsers \ {u} : \E c2 \in LearnerTypes :
              /\ <<u2, c2>> \in Pairs(user_preferences)
              /\ user_preferences[u2][c2] # EmptyDict

\* |a - b|
Dist(a, b) == IF a >= b THEN a - b ELSE b - a

\* C17: a call that repeats feedback value f for a parameter whose stored
\* value v differs from f completes and moves the stored value toward f:
\* strictly closer than v, and not past f.
C17_ContractsTowardFeedback ==
    (update_result # NoUpdate /\ update_result.known) =>
        LET fb == update_result.feedback
            before == update_result.before
            stored == user_preferences[update_result.user_id]
                                      [update_result.content_type]
        IN \A k \in DOMAIN fb \cap DOMAIN before :
               before[k] # fb[k] =>
                   /\ update_result.raised = "nothing"
                   /\ Dist(stored[k], fb[k]) < Dist(before[k], fb[k])
                   /\ (before[k] < fb[k] => stored[k] <= fb[k])
                   /\ (before[k] > fb[k] => stored[k] >= fb[k])

\* The learned profile of a (user, content type) pair, empty when none.
LearnedProfile(user_id, content_type) ==
    LET learned == get_preferences(user_preferences, user_id) IN
    IF content_type \in DOMAIN learned THEN learned[content_type] ELSE EmptyDict

\* C14: for every user and content type the style used for the transform is
\* the content type's default merged with the user's learned profile: the
\* learned value for every key the learned profile has, the default value for
\* every other key.
C14_ProfileSelection ==
    selected # NoSelection =>
        LET default == style_presets[selected.content_type]
            learned == LearnedProfile(selected.user_id, selected.content_type)
        IN
        /\ DOMAIN selected.style = DOMAIN default \cup DOMAIN learned
        /\ \A k \in DOMAIN selected.style :
               selected.style[k] =
                   IF k \in DOMAIN learned THEN learned[k] ELSE default[k]

\* Both sessions have made one call each, for the same pair, and returned.
BothReturned(s, o) ==
    /\ session[s].pc = "idle" /\ session[o].pc = "idle"
    /\ session[s].calls = 1 /\ session[o].calls = 1
    /\ session[s].user_id = session[o].user_id
    /\ session[s].content_type = session[o].content_type

\* C11: two concurrent updates of one (user, content type) pair on an empty
\* store are serialized: in every interleaving both complete and the stored
\* profile is the first feedback smoothed with the second, in one of the two
\* orders; no update is lost.
C11_Serialized ==
    \A s \in Sessions : \A o \in Sessions \ {s} :
        BothReturned(s, o) =>
            LET u == session[s].user_id
                ct == session[s].content_type
                a == session[s].feedback
                b == session[o].feedback
            IN
            /\ session[s].raised = "nothing" /\ session[o].raised = "nothing"
            /\ u \in DOMAIN user_preferences
            /\ ct \in DOMAIN user_preferences[u]
            /\ user_preferences[u][ct]
                   \in {WeightedUpdate(a, b), WeightedUpdate(b, a)}

====
